---- MODULE Spec2Model ----
(***************************************************************************)
(* Frequency-tree compression: the padded bit buffer (src/src/bitvec.rs)   *)
(* and the codec built on it (src/src/lib.rs), instantiated at U = u8      *)
(* (size_of::<U>() = 1), as examples/multipass_compression.rs does.        *)
(*                                                                         *)
(* Bytes are numbers 0..255, bits are 0/1 (Rust's `bit as u8`).  A panic   *)
(* of the Rust code is the value PANIC.                                    *)
(***************************************************************************)
EXTENDS Integers, Sequences, FiniteSets, TLC

VARIABLES
    overflow_checks,  \* build profile: TRUE = arithmetic overflow panics (debug), FALSE = wraps (release)
    bv,               \* the BitVec under test: [raw_data, last_byte_padding]
    log,              \* the bits handed to append_bit / extend_from_bits, or the steps of the code path, in order
    last_op,          \* the last operation: "new", "append_bit", "extend_aligned", "extend_misaligned", "deserialize", "step_left", "step_right"
    path,             \* the Encoding (code path) under test, or PANIC
    pc,               \* position of the codec run
    data,             \* the symbol sequence given to compress
    frequencies,      \* the (value, freq) pairs, sorted, as EncodingTree::encode holds them
    next_i,           \* how many pairs of frequencies have been inserted / symbols encoded
    encoder,          \* the EncodingTree: [root, leaf_count]
    encoded,          \* the BitVec the symbol codes are appended to
    blob,             \* what compress returned (a byte sequence) or PANIC
    prev_blob,        \* what a second compress call on the same data returned
    fed,              \* the bytes given to decompress
    fed_kind,         \* where fed came from: "blob", "truncated", "bytes", "tree", "memory", "bits", "view"
    parsed,           \* what DecodingTree::deserialize returned on fed
    result            \* what decompress / decode returned

vars == <<overflow_checks, bv, log, last_op, path, pc, data, frequencies, next_i, encoder,
          encoded, blob, prev_blob, fed, fed_kind, parsed, result>>

codec_vars == <<pc, data, frequencies, next_i, encoder, encoded, blob,
                prev_blob, fed, fed_kind, parsed, result>>

bits_vars == <<bv, log, last_op, path>>

----------------------------------------------------------------------------
(* Bounds of the model *)

MaxBits == 10          \* most bits a BitVec under test holds
MaxViewBytes == 2      \* most bytes of a bit view given to extend_from_bits
MaxLen == 5            \* longest symbol sequence given to compress
MaxFed == 4            \* longest arbitrary byte string given to decompress

SizeOfU == 1           \* mem::size_of::<u8>()

\* the symbol alphabet (u8 values; 0 and 1 are also the node type tags)
Symbols == {0, 1, 255}

\* the byte values arbitrary inputs are drawn from
FedBytes == {0, 1, 7, 9, 128}

\* the byte values bit views are drawn from
ViewBytes == {5, 160, 255}

PANIC == [kind |-> "Panic"]
None == [kind |-> "None"]
Ok(v) == [kind |-> "Ok", val |-> v]
Err(e) == [kind |-> "Err", err |-> e]

----------------------------------------------------------------------------
(* Bit arithmetic on bytes *)

Pow2(n) == 2 ^ n

\* (byte & (1 << k)) != 0
TestBit(byte, k) == (byte \div Pow2(k)) % 2 = 1

\* byte | (bit << k), for bit in {0,1} and k in 0..7
OrBit(byte, bit, k) ==
    IF bit = 1 /\ ~TestBit(byte, k) THEN byte + Pow2(k) ELSE byte

----------------------------------------------------------------------------
(* src/src/bitvec.rs *)

BitVec_new == [raw_data |-> <<>>, last_byte_padding |-> 0]

len_bits(v) == Len(v.raw_data) * 8 - v.last_byte_padding

least_len_bytes(v) == Len(v.raw_data)

least_bytes_repr_for_bits(bit_count) ==
    (bit_count \div 8) + (IF bit_count % 8 # 0 THEN 1 ELSE 0)

\* append_bit with the fresh byte's padding set one too high
append_bit_pad8(v, bit) ==
    IF v = PANIC THEN PANIC
    ELSE IF v.last_byte_padding = 0
    THEN [raw_data |-> Append(v.raw_data, bit * 128), last_byte_padding |-> 8]
    ELSE LET n == Len(v.raw_data)
             sh == (v.last_byte_padding - 1) % 8
         IN  [raw_data |-> [v.raw_data EXCEPT ![n] = OrBit(@, bit, sh)],
              last_byte_padding |-> v.last_byte_padding - 1]

append_bit(v, bit) ==
    IF v = PANIC THEN PANIC
    ELSE IF v.last_byte_padding = 0
    THEN [raw_data |-> Append(v.raw_data, bit * 128), last_byte_padding |-> 7]
    ELSE IF Len(v.raw_data) = 0
    THEN PANIC                                   \* last_mut().unwrap() on an empty Vec
    ELSE IF v.last_byte_padding - 1 >= 8 /\ overflow_checks
    THEN PANIC                                   \* shift amount >= 8 on a u8
    ELSE LET n == Len(v.raw_data)
             sh == (v.last_byte_padding - 1) % 8
         IN  [raw_data |-> [v.raw_data EXCEPT ![n] = OrBit(@, bit, sh)],
              last_byte_padding |-> v.last_byte_padding - 1]

as_bit_view(v) == [raw_data |-> v.raw_data, last_byte_padding |-> v.last_byte_padding]

from_padded_bytes(bytes, padding) == [raw_data |-> bytes, last_byte_padding |-> padding]

\* BitIterator::next with the end test `>` in place of `>=`
BitIterator_next_past_end(view, i) ==
    LET byte_i == i \div 8
        n == Len(view.raw_data)
    IN  IF byte_i >= n THEN <<"none">>
        ELSE LET byte == view.raw_data[byte_i + 1]
                 bit_in_byte_i == i % 8
                 p == view.last_byte_padding
             IN  IF byte_i = n - 1 /\ bit_in_byte_i > (8 - p) % 256
                 THEN <<"none">>
                 ELSE <<"some", IF TestBit(byte, 7 - bit_in_byte_i) THEN 1 ELSE 0>>

\* BitIterator::next at position i: <<"some", bit>>, <<"none">> or <<"panic">>
BitIterator_next(view, i) ==
    LET byte_i == i \div 8
        n == Len(view.raw_data)
    IN  IF byte_i >= n THEN <<"none">>
        ELSE LET byte == view.raw_data[byte_i + 1]
                 bit_in_byte_i == i % 8
                 p == view.last_byte_padding
             IN  IF byte_i = n - 1
                 THEN IF p > 8 /\ overflow_checks
                      THEN <<"panic">>                       \* 8 - padding underflows u8
                      ELSE IF bit_in_byte_i >= (8 - p) % 256
                      THEN <<"none">>
                      ELSE <<"some", IF TestBit(byte, 7 - bit_in_byte_i) THEN 1 ELSE 0>>
                 ELSE <<"some", IF TestBit(byte, 7 - bit_in_byte_i) THEN 1 ELSE 0>>

RECURSIVE collect_bits(_, _, _)
collect_bits(view, i, acc) ==
    LET r == BitIterator_next(view, i)
    IN  IF r[1] = "some" THEN collect_bits(view, i + 1, Append(acc, r[2]))
        ELSE [bits |-> acc, panicked |-> r[1] = "panic"]

\* the bits an iteration of the view yields, and whether it ended in a panic
iter_bits(view) == collect_bits(view, 0, <<>>)

to_bool_slice(view) == iter_bits(view).bits

RECURSIVE append_bits(_, _)
append_bits(v, bits) ==
    IF bits = <<>> THEN v
    ELSE append_bits(append_bit(v, Head(bits)), Tail(bits))

from_bool_slice(bools) == append_bits(BitVec_new, bools)

extend_from_bits(v, bit_view) ==
    IF v = PANIC THEN PANIC
    ELSE IF v.last_byte_padding = 0
    THEN [raw_data |-> v.raw_data \o bit_view.raw_data,
          last_byte_padding |-> bit_view.last_byte_padding]
    ELSE LET it == iter_bits(bit_view)
             r == append_bits(v, it.bits)
         IN  IF it.panicked THEN PANIC ELSE r

\* BitVec::serialize with the padding byte pushed after the data
BitVec_serialize_padding_last(v) == v.raw_data \o <<v.last_byte_padding>>

\* BitVec::serialize: the padding byte, then the data bytes
BitVec_serialize(v) == <<v.last_byte_padding>> \o v.raw_data

\* BitVec::deserialize: input[0] is the padding, input[1..] the data;
\* indexing an empty slice panics
BitVec_deserialize(input) ==
    IF Len(input) = 0 THEN PANIC
    ELSE [raw_data |-> Tail(input), last_byte_padding |-> input[1]]

----------------------------------------------------------------------------
(* src/src/lib.rs: the symbol type U = u8 and its raw byte representation *)

\* slice::from_raw_parts(value as *const u8, size_of::<U>())
U_to_bytes(value) == <<value>>

\* transmute::<&[u8; size_of::<U>()], &U>(bytes).clone()
U_from_bytes(bytes) == bytes[1]

----------------------------------------------------------------------------
(* src/src/lib.rs: Node *)

Leaf(count, value) == [type |-> "Leaf", count |-> count, value |-> value]

Parent(count, left, right) ==
    [type |-> "Parent", count |-> count, left |-> left, right |-> right]

Node_count(node) == node.count

\* PartialEq for Node: shapes and leaf values, counts ignored
RECURSIVE Node_eq(_, _)
Node_eq(a, b) ==
    IF a.type = "Parent" /\ b.type = "Parent"
    THEN Node_eq(a.left, b.left) /\ Node_eq(a.right, b.right)
    ELSE IF a.type = "Leaf" /\ b.type = "Leaf"
    THEN a.value = b.value
    ELSE FALSE

\* insert without the `*count += freq` on the way back up
RECURSIVE insert_no_count_update(_, _, _)
insert_no_count_update(node, freq, insert_value) ==
    IF node.type = "Parent"
    THEN IF Node_count(node.right) > Node_count(node.left)
         THEN Parent(node.count, insert_no_count_update(node.left, freq, insert_value), node.right)
         ELSE Parent(node.count, node.left, insert_no_count_update(node.right, freq, insert_value))
    ELSE Parent(node.count + freq,
                Leaf(node.count, node.value),
                Leaf(freq, insert_value))

\* insert with a tie between the children going left (`>=` in place of `>`)
RECURSIVE insert_ties_left(_, _, _)
insert_ties_left(node, freq, insert_value) ==
    IF node.type = "Parent"
    THEN IF Node_count(node.right) >= Node_count(node.left)
         THEN Parent(node.count + freq, insert_ties_left(node.left, freq, insert_value), node.right)
         ELSE Parent(node.count + freq, node.left, insert_ties_left(node.right, freq, insert_value))
    ELSE Parent(node.count + freq,
                Leaf(node.count, node.value),
                Leaf(freq, insert_value))

RECURSIVE insert(_, _, _)
insert(node, freq, insert_value) ==
    IF node.type = "Parent"
    THEN IF Node_count(node.right) > Node_count(node.left)
         THEN Parent(node.count + freq, insert(node.left, freq, insert_value), node.right)
         ELSE Parent(node.count + freq, node.left, insert(node.right, freq, insert_value))
    ELSE Parent(node.count + freq,
                Leaf(node.count, node.value),
                Leaf(freq, insert_value))

\* Node::serialize: preorder, a tag byte per node, the raw value bytes per leaf
RECURSIVE Node_serialize(_)
Node_serialize(node) ==
    IF node.type = "Parent"
    THEN <<1>> \o Node_serialize(node.left) \o Node_serialize(node.right)
    ELSE <<0>> \o U_to_bytes(node.value)

\* SerialSpecifier::try_from(u8)
SerialSpecifier_try_from(value) ==
    IF value > 1
    THEN Err(<<"InvalidNodeTypeSpecifier", value>>)
    ELSE Ok(IF value = 0 THEN "Leaf" ELSE "Parent")

\* the Leaf arm's length check with the tag byte left out of the count
leaf_data_missing_no_tag(buf) == Len(buf) < SizeOfU

\* buf.len() < 1 + mem::size_of::<U>()
leaf_data_missing(buf) == Len(buf) < 1 + SizeOfU

\* the Parent arm's consumed-byte count without the tag byte
parent_read_no_tag(read1, read2) == read1 + read2

\* 1 + read1 + read2
parent_read(read1, read2) == 1 + read1 + read2

\* Node::deserialize: Ok(<<node, read>>), Err(error) or PANIC (slice out of range)
RECURSIVE Node_deserialize(_)
Node_deserialize(buf) ==
    IF Len(buf) = 0 THEN Err(<<"MissingNodeTypeSpecifier">>)
    ELSE LET spec == SerialSpecifier_try_from(buf[1])
         IN  IF spec.kind = "Err" THEN spec
             ELSE IF spec.val = "Leaf"
             THEN IF leaf_data_missing(buf)
                  THEN Err(<<"MissingNodeUnitData">>)
                  ELSE IF 1 + SizeOfU > Len(buf)
                  THEN PANIC                              \* &buf[1..1 + size] out of range
                  ELSE Ok(<<Leaf(0, U_from_bytes(SubSeq(buf, 2, 1 + SizeOfU))),
                            1 + SizeOfU>>)
             ELSE LET l == Node_deserialize(SubSeq(buf, 2, Len(buf)))
                  IN  IF l.kind # "Ok" THEN l
                      ELSE IF 1 + l.val[2] > Len(buf)
                      THEN PANIC                          \* &buf[1 + read1..] out of range
                      ELSE LET r == Node_deserialize(SubSeq(buf, 2 + l.val[2], Len(buf)))
                           IN  IF r.kind # "Ok" THEN r
                               ELSE Ok(<<Parent(0, l.val[1], r.val[1]),
                                         parent_read(l.val[2], r.val[2])>>)

----------------------------------------------------------------------------
(* src/src/lib.rs: Encoding.  The u64 `bits` is held as its 8 bytes in     *)
(* memory order on a little-endian target (bits[1] the least significant), *)
(* which is what as_bits reads through the transmute to [u8; 8].           *)

Encoding_new_zeroed == [bits |-> <<0, 0, 0, 0, 0, 0, 0, 0>>, meaningful |-> 0]

\* u64::to_be as it is on a big-endian target: no change
to_be_identity(mem) == mem

\* u64::to_be on a little-endian target: the bytes swapped
to_be(mem) == [i \in 1..8 |-> mem[9 - i]]

\* mem | (1_u64 << k), k in 0..63
u64_or_bit(mem, k) == [mem EXCEPT ![(k \div 8) + 1] = OrBit(@, 1, k % 8)]

step_left(e) ==
    IF e = PANIC THEN PANIC
    ELSE IF e.meaningful + 1 > 255 /\ overflow_checks THEN PANIC
    ELSE [bits |-> e.bits, meaningful |-> (e.meaningful + 1) % 256]

\* step_right setting bit `meaningful` of the integer, with no byte swap
step_right_lsb(e) ==
    IF e = PANIC THEN PANIC
    ELSE IF e.meaningful + 1 > 255 /\ overflow_checks THEN PANIC
    ELSE [bits |-> u64_or_bit(e.bits, e.meaningful % 64),
          meaningful |-> (e.meaningful + 1) % 256]

step_right(e) ==
    IF e = PANIC THEN PANIC
    ELSE IF (e.meaningful > 63 \/ e.meaningful + 1 > 255) /\ overflow_checks THEN PANIC
    ELSE LET sh == ((63 - e.meaningful) % 256) % 64
         IN  [bits |-> to_be(u64_or_bit(to_be(e.bits), sh)),
              meaningful |-> (e.meaningful + 1) % 256]

as_bits(e) ==
    IF e = PANIC THEN PANIC
    ELSE LET n == least_bytes_repr_for_bits(e.meaningful)
             r == e.meaningful % 8
         IN  IF n > 8 THEN PANIC                          \* [0..n] out of range of [u8; 8]
             ELSE from_padded_bytes(SubSeq(e.bits, 1, n),
                                    (8 - r) * (IF r # 0 THEN 1 ELSE 0))

\* Node::encode: the path to the first leaf (left first) holding target, or None
RECURSIVE Node_encode(_, _, _)
Node_encode(node, encoding, target) ==
    IF encoding = PANIC THEN PANIC
    ELSE IF node.type = "Parent"
    THEN LET l == Node_encode(node.left, step_left(encoding), target)
         IN  IF l # None THEN l
             ELSE Node_encode(node.right, step_right(encoding), target)
    ELSE IF node.value = target THEN encoding ELSE None

----------------------------------------------------------------------------
(* src/src/lib.rs: DecodingTree *)

Some(v) == [kind |-> "Some", val |-> v]

\* [left, right][bit] with the two children swapped
next_node_swapped(node, bit) == IF bit = 0 THEN node.right ELSE node.left

\* [left, right][bit as usize]
next_node(node, bit) == IF bit = 0 THEN node.left ELSE node.right

\* the decode loop without the `!ptr::eq(node, &self.root)` test after it
RECURSIVE decode_walk_no_end_check(_, _, _, _, _)
decode_walk_no_end_check(root, node, at_root, bits, decoded) ==
    IF bits = <<>>
    THEN IF node.type = "Leaf" THEN Ok(Append(decoded, node.value))
         ELSE Ok(decoded)
    ELSE IF node.type = "Parent"
    THEN LET nxt == next_node(node, Head(bits))
         IN  IF nxt.type = "Parent"
             THEN decode_walk_no_end_check(root, nxt, FALSE, Tail(bits), decoded)
             ELSE decode_walk_no_end_check(root, root, TRUE, Tail(bits), Append(decoded, nxt.value))
    ELSE PANIC

\* the `for bit in bitcode.iter_bits()` loop of decode and what follows it;
\* at_root tells whether `node` is the pointer &self.root
RECURSIVE decode_walk(_, _, _, _, _)
decode_walk(root, node, at_root, bits, decoded) ==
    IF bits = <<>>
    THEN IF node.type = "Leaf" THEN Ok(Append(decoded, node.value))
         ELSE IF ~at_root THEN Err(<<"InvalidEncoding">>)
         ELSE Ok(decoded)
    ELSE IF node.type = "Parent"
    THEN LET nxt == next_node(node, Head(bits))
         IN  IF nxt.type = "Parent"
             THEN decode_walk(root, nxt, FALSE, Tail(bits), decoded)
             ELSE decode_walk(root, root, TRUE, Tail(bits), Append(decoded, nxt.value))
    ELSE PANIC                                            \* unreachable!()

\* DecodingTree::decode
decode(tree, bitcode) ==
    LET it == iter_bits(bitcode)
        walked == decode_walk(tree.root, tree.root, TRUE, it.bits, <<>>)
    IN  IF walked = PANIC \/ it.panicked THEN PANIC ELSE walked

DecodingTree_serialize(tree) == Node_serialize(tree.root)

DecodingTree_deserialize(input) ==
    LET r == Node_deserialize(input)
    IN  IF r.kind = "Ok" THEN Ok(<<[root |-> r.val[1]], r.val[2]>>) ELSE r

----------------------------------------------------------------------------
(* src/src/lib.rs: EncodingTree *)

EncodingTree_new == [root |-> None, leaf_count |-> 0]

leaf_node_count(tree) == tree.leaf_count

parent_node_count(tree) == tree.leaf_count - (IF tree.leaf_count > 1 THEN 1 ELSE 0)

add_value(tree, freq, value) ==
    [root |-> IF tree.root # None
              THEN insert(tree.root, freq, value)
              ELSE Leaf(freq, value),
     leaf_count |-> tree.leaf_count + 1]

encode_value(tree, value) ==
    IF tree.root = None THEN PANIC                        \* root.as_ref().unwrap()
    ELSE LET r == Node_encode(tree.root, Encoding_new_zeroed, value)
         IN  IF r = None THEN PANIC ELSE r                \* .encode(..).unwrap()

\* the `for ch in data` loop of EncodingTree::encode
RECURSIVE encode_data(_, _, _)
encode_data(tree, symbols, acc) ==
    IF acc = PANIC \/ symbols = <<>> THEN acc
    ELSE LET view == as_bits(encode_value(tree, Head(symbols)))
         IN  IF view = PANIC THEN PANIC
             ELSE encode_data(tree, Tail(symbols), extend_from_bits(acc, view))

into_decoder(tree) ==
    IF tree.root = None THEN None ELSE Some([root |-> tree.root])

\* the number of occurrences of unit in the sequence
Count(symbols, unit) == Cardinality({i \in 1..Len(symbols) : symbols[i] = unit})

Distinct(symbols) == {symbols[i] : i \in 1..Len(symbols)}

\* value_frequencies: the pairs (value, count) in the order HashMap::drain
\* yields them, which is any order of the distinct values
value_frequencies(symbols) ==
    LET D == Distinct(symbols)
        n == Cardinality(D)
    IN  {[i \in 1..n |-> <<o[i], Count(symbols, o[i])>>] :
            o \in {f \in [1..n -> D] : \A i, j \in 1..n : f[i] = f[j] => i = j}}

\* sort_by_key(|pair| pair.1): stable, ascending by count
RECURSIVE sort_frequencies(_)
sort_frequencies(pairs) ==
    IF pairs = <<>> THEN <<>>
    ELSE LET n == Len(pairs)
             x == pairs[n]
             sorted == sort_frequencies(SubSeq(pairs, 1, n - 1))
             k == Cardinality({i \in 1..(n - 1) : sorted[i][2] <= x[2]})
         IN  SubSeq(sorted, 1, k) \o <<x>> \o SubSeq(sorted, k + 1, n - 1)

----------------------------------------------------------------------------
(* src/src/lib.rs: compress, decompress *)

Bytes(b) == [kind |-> "Bytes", bytes |-> b]

\* compress after EncodingTree::encode returned (encoder, bitcode)
compress_tail(enc, bitcode) ==
    LET decoder == into_decoder(enc)
    IN  IF bitcode = PANIC \/ decoder = None THEN PANIC   \* into_decoder().unwrap()
        ELSE Bytes(DecodingTree_serialize(decoder.val) \o BitVec_serialize(bitcode))

\* the `for (value, freq) in frequencies.iter()` loop of EncodingTree::encode
RECURSIVE add_values(_, _)
add_values(tree, pairs) ==
    IF pairs = <<>> THEN tree
    ELSE add_values(add_value(tree, Head(pairs)[2], Head(pairs)[1]), Tail(pairs))

\* compress(symbols) when value_frequencies returns the pairs in the order drained
compress_from(symbols, drained) ==
    LET enc == add_values(EncodingTree_new, sort_frequencies(drained))
    IN  compress_tail(enc, encode_data(enc, symbols, BitVec_new))

\* decompress after DecodingTree::deserialize returned t
decompress_tail(input, t) ==
    IF t = PANIC THEN PANIC
    ELSE IF t.kind = "Err" THEN Err(<<"InvalidDecodingTree", t.err>>)
    ELSE LET decoder == t.val[1]
             read == t.val[2]
         IN  IF read > Len(input) THEN PANIC              \* &input[read..] out of range
             ELSE LET bitcode == BitVec_deserialize(SubSeq(input, read + 1, Len(input)))
                  IN  IF bitcode = PANIC THEN PANIC
                      ELSE LET d == decode(decoder, as_bit_view(bitcode))
                           IN  IF d = PANIC THEN PANIC
                               ELSE IF d.kind = "Err"
                               THEN Err(<<"BitCodeDecodingError", d.err>>)
                               ELSE d

decompress(input) == decompress_tail(input, DecodingTree_deserialize(input))

----------------------------------------------------------------------------
(* The inputs the model draws from *)

SeqsUpTo(S, n) == UNION {[1..k -> S] : k \in 0..n}

\* the symbol sequences given to compress
Inputs == SeqsUpTo(Symbols, MaxLen)

\* the byte strings given to decompress
FedInputs == SeqsUpTo(FedBytes, MaxFed)

\* the bytes that follow a serialized tree
Rests == {<<>>, <<1, 0>>, <<7, 128>>}

\* the bit views given to extend_from_bits: BitView::from_padded_bytes of any
\* bytes with a padding of 0..7, and of 0 when there are no bytes
Views ==
    {from_padded_bytes(b, p) : <<b, p>> \in
        {x \in SeqsUpTo(ViewBytes, MaxViewBytes) \X (0..7) : x[1] = <<>> => x[2] = 0}}

----------------------------------------------------------------------------
(* The state machine *)

Init ==
    /\ overflow_checks \in BOOLEAN
    /\ bv = BitVec_new
    /\ log = <<>>
    /\ last_op = "new"
    /\ path = Encoding_new_zeroed
    /\ pc = "idle"
    /\ data = <<>>
    /\ frequencies = <<>>
    /\ next_i = 0
    /\ encoder = EncodingTree_new
    /\ encoded = BitVec_new
    /\ blob = None
    /\ prev_blob = None
    /\ fed = <<>>
    /\ fed_kind = "none"
    /\ parsed = None
    /\ result = None

(* BitVec operations on the buffer under test *)

AppendBit(bit) ==
    /\ Len(log) < MaxBits
    /\ bv' = append_bit(bv, bit)
    /\ log' = Append(log, bit)
    /\ last_op' = "append_bit"
    /\ UNCHANGED <<overflow_checks, path, codec_vars>>

ExtendFromBits(view) ==
    /\ Len(log) + len_bits(view) <= MaxBits
    /\ bv' = extend_from_bits(bv, view)
    /\ log' = log \o to_bool_slice(view)
    /\ last_op' = IF bv.last_byte_padding = 0 THEN "extend_aligned" ELSE "extend_misaligned"
    /\ UNCHANGED <<overflow_checks, path, codec_vars>>

(* compress(data), step by step *)

\* compress is called on a symbol sequence
CallCompress(symbols) ==
    /\ pc = "idle"
    /\ data' = symbols
    /\ pc' = "frequencies"
    /\ UNCHANGED <<overflow_checks, bits_vars, frequencies, next_i, encoder, encoded,
                   blob, prev_blob, fed, fed_kind, parsed, result>>

\* value_frequencies(data.clone()); sort_frequencies; Self::new()
ValueFrequencies ==
    /\ pc = "frequencies"
    /\ \E drained \in value_frequencies(data) :
          frequencies' = sort_frequencies(drained)
    /\ encoder' = EncodingTree_new
    /\ next_i' = 0
    /\ pc' = "insert"
    /\ UNCHANGED <<overflow_checks, bits_vars, data, encoded, blob, prev_blob,
                   fed, fed_kind, parsed, result>>

\* one round of `for (value, freq) in frequencies.iter()`
AddValue ==
    /\ pc = "insert"
    /\ next_i < Len(frequencies)
    /\ encoder' = add_value(encoder, frequencies[next_i + 1][2], frequencies[next_i + 1][1])
    /\ next_i' = next_i + 1
    /\ UNCHANGED <<overflow_checks, bits_vars, pc, data, frequencies, encoded, blob,
                   prev_blob, fed, fed_kind, parsed, result>>

\* the `for ch in data` loop; EncodingTree::encode returns (encoder, encoded)
EncodeData ==
    /\ pc = "insert"
    /\ next_i = Len(frequencies)
    /\ encoded' = encode_data(encoder, data, BitVec_new)
    /\ pc' = "encoded"
    /\ UNCHANGED <<overflow_checks, bits_vars, data, frequencies, next_i, encoder, blob,
                   prev_blob, fed, fed_kind, parsed, result>>

\* the rest of compress: into_decoder().unwrap(), the two serializations
CompressReturn ==
    /\ pc = "encoded"
    /\ blob' = compress_tail(encoder, encoded)
    /\ pc' = "done"
    /\ UNCHANGED <<overflow_checks, bits_vars, data, frequencies, next_i, encoder, encoded,
                   prev_blob, fed, fed_kind, parsed, result>>

\* compress is called a second time on the same sequence, as a whole
CompressAgain ==
    /\ pc = "done"
    /\ fed_kind = "none"
    /\ \E drained \in value_frequencies(data) :
          prev_blob' = compress_from(data, drained)
    /\ pc' = "done2"
    /\ UNCHANGED <<overflow_checks, bits_vars, data, frequencies, next_i, encoder, encoded,
                   blob, fed, fed_kind, parsed, result>>

(* decompress and the other uses of what compress made *)

Decompress(input, kind) ==
    /\ fed' = input
    /\ fed_kind' = kind
    /\ parsed' = DecodingTree_deserialize(input)
    /\ result' = decompress_tail(input, parsed')

\* decompress(compress(data))
DecompressBlob ==
    /\ pc = "done"
    /\ blob.kind = "Bytes"
    /\ Decompress(blob.bytes, "blob")
    /\ UNCHANGED <<overflow_checks, bits_vars, pc, data, frequencies, next_i, encoder,
                   encoded, blob, prev_blob>>

\* decompress of the blob without its final byte, a byte of the bit buffer's data
DecompressTruncated ==
    /\ pc = "done"
    /\ blob.kind = "Bytes"
    /\ least_len_bytes(encoded) >= 1
    /\ Decompress(SubSeq(blob.bytes, 1, Len(blob.bytes) - 1), "truncated")
    /\ UNCHANGED <<overflow_checks, bits_vars, pc, data, frequencies, next_i, encoder,
                   encoded, blob, prev_blob>>

\* decompress of arbitrary bytes
DecompressBytes(input) ==
    /\ pc = "idle"
    /\ Decompress(input, "bytes")
    /\ pc' = "fed"
    /\ UNCHANGED <<overflow_checks, bits_vars, data, frequencies, next_i, encoder,
                   encoded, blob, prev_blob>>

\* the bit views given to decode: no byte or one byte, any padding bits
DecodeViews ==
    {from_padded_bytes(<<>>, 0)}
        \cup {from_padded_bytes(<<b>>, p) : b \in {0, 100, 160, 255}, p \in {0, 3, 7}}

\* encoder.into_decoder().unwrap().decode(&view) for a bit view that compress
\* did not produce; fed keeps the view, its padding first
DecodeBits(view) ==
    /\ pc = "done"
    /\ encoder.root # None
    /\ fed' = <<view.last_byte_padding>> \o view.raw_data
    /\ fed_kind' = "view"
    /\ parsed' = None
    /\ result' = decode(into_decoder(encoder).val, view)
    /\ UNCHANGED <<overflow_checks, bits_vars, pc, data, frequencies, next_i, encoder,
                   encoded, blob, prev_blob>>

\* encoder.into_decoder().unwrap().decode(&encoded.as_bit_view()), as the tests do
DecodeInMemory ==
    /\ pc = "done"
    /\ fed' = <<>>
    /\ fed_kind' = "memory"
    /\ parsed' = None
    /\ result' = LET decoder == into_decoder(encoder)
                 IN  IF decoder = None \/ encoded = PANIC THEN PANIC
                     ELSE decode(decoder.val, as_bit_view(encoded))
    /\ UNCHANGED <<overflow_checks, bits_vars, pc, data, frequencies, next_i, encoder,
                   encoded, blob, prev_blob>>

\* the decoder is serialized and DecodingTree::deserialize reads it back from
\* bytes that go on after it
DeserializeTree(rest) ==
    /\ pc = "done"
    /\ encoder.root # None
    /\ fed' = DecodingTree_serialize(into_decoder(encoder).val) \o rest
    /\ fed_kind' = "tree"
    /\ parsed' = DecodingTree_deserialize(fed')
    /\ result' = None
    /\ UNCHANGED <<overflow_checks, bits_vars, pc, data, frequencies, next_i, encoder,
                   encoded, blob, prev_blob>>

Next ==
    \/ (pc = "idle" /\ \E symbols \in Inputs : CallCompress(symbols))
    \/ ValueFrequencies
    \/ AddValue
    \/ EncodeData
    \/ CompressReturn
    \/ CompressAgain
    \/ DecompressBlob
    \/ DecompressTruncated
    \/ (pc = "idle" /\ \E input \in FedInputs : DecompressBytes(input))
    \/ DecodeInMemory
    \/ (pc = "done" /\ \E rest \in Rests : DeserializeTree(rest))
    \/ (pc = "done" /\ \E view \in DecodeViews : DecodeBits(view))

Spec == Init /\ [][Next]_vars

NextBits ==
    \/ \E bit \in {0, 1} : AppendBit(bit)
    \/ \E view \in Views : ExtendFromBits(view)

SpecBits == Init /\ [][NextBits]_vars

----------------------------------------------------------------------------
(* Properties of the codec, checked under Spec *)

\* C1: round trip. decompress(compress(data)) returns Ok with exactly data, and
\* so does decoding the bit buffer of EncodingTree::encode with the decoder made
\* from its tree.
C1_RoundTrip ==
    fed_kind \in {"blob", "memory"} => result = Ok(data)

\* C2: compress has no failure path. Every call of compress, the one on the
\* empty sequence included, returns a byte blob.
C2_CompressNeverPanics ==
    pc = "done" => blob.kind = "Bytes"

\* C3: decompress never crashes. On every byte string it returns Ok or a
\* DecompressionError.
C3_DecompressNeverPanics ==
    fed_kind = "bytes" => result.kind \in {"Ok", "Err"}

\* C4: determinism. Two calls of compress on the same sequence return the same
\* bytes.
C4_Deterministic ==
    pc = "done2" => prev_blob = blob

\* C5 as stated: decompress of a blob without its final data byte returns an error.
C5_TruncationDetected ==
    fed_kind = "truncated" => result.kind = "Err"

IsProperPrefix(s, t) == Len(s) < Len(t) /\ s = SubSeq(t, 1, Len(s))

\* C5 as amended: decompress of a blob without its final data byte never panics;
\* it returns BitCodeDecodingError(InvalidEncoding), or Ok with a proper prefix
\* of the sequence that was compressed.
C5_TruncationPrefixOrError ==
    fed_kind = "truncated" =>
        \/ result = Err(<<"BitCodeDecodingError", <<"InvalidEncoding">>>>)
        \/ (result.kind = "Ok" /\ IsProperPrefix(result.val, data))

\* a blob of two data bytes lost its second one and the bits end inside a code
C5_Witness ==
    /\ fed_kind = "truncated"
    /\ least_len_bytes(encoded) = 2
    /\ result.kind = "Err"

\* the leaves of a tree, left to right
RECURSIVE Leaves(_)
Leaves(node) ==
    IF node.type = "Parent" THEN Leaves(node.left) \o Leaves(node.right) ELSE <<node>>

RECURSIVE SumCounts(_)
SumCounts(leaves) == IF leaves = <<>> THEN 0 ELSE Head(leaves).count + SumCounts(Tail(leaves))

\* every Parent's count is the sum of its children's and of its subtree's leaves
RECURSIVE CountsAddUp(_)
CountsAddUp(node) ==
    node.type = "Parent" =>
        /\ node.count = node.left.count + node.right.count
        /\ node.count = SumCounts(Leaves(node))
        /\ CountsAddUp(node.left)
        /\ CountsAddUp(node.right)

\* C8: tree invariant. After every add_value, each Parent's count is the sum of
\* its children's counts and of the leaf counts below it, each value inserted so
\* far is held by exactly one leaf, with its frequency, and once all are inserted
\* the leaves hold exactly the distinct symbols of the input.
C8_TreeInvariant ==
    (pc \in {"insert", "encoded", "done", "done2"} /\ encoder.root # None) =>
        LET leaves == Leaves(encoder.root)
        IN  /\ CountsAddUp(encoder.root)
            /\ Len(leaves) = next_i
            /\ encoder.leaf_count = next_i
            /\ \A i \in 1..next_i :
                  Cardinality({j \in 1..Len(leaves) :
                                  leaves[j].value = frequencies[i][1]}) = 1
            /\ \A j \in 1..Len(leaves) : leaves[j].count = Count(data, leaves[j].value)
            /\ (pc # "insert" =>
                  /\ {leaves[j].value : j \in 1..Len(leaves)} = Distinct(data)
                  /\ encoder.root.count = Len(data))

\* a third value was inserted below a Parent
C8_Witness ==
    /\ pc = "insert"
    /\ next_i = 3
    /\ encoder.root.type = "Parent"
    /\ encoder.root.right.type = "Parent"

\* the outcome of reading a tree from buf by one pass over the tags, with
\* `pending` nodes still to read from position pos
RECURSIVE ScanTree(_, _, _)
ScanTree(buf, pos, pending) ==
    IF pending = 0 THEN <<"read", pos>>
    ELSE IF pos >= Len(buf) THEN <<"MissingNodeTypeSpecifier">>
    ELSE IF buf[pos + 1] > 1 THEN <<"InvalidNodeTypeSpecifier", buf[pos + 1]>>
    ELSE IF buf[pos + 1] = 1 THEN ScanTree(buf, pos + 1, pending + 1)
    ELSE IF Len(buf) - pos < 1 + SizeOfU THEN <<"MissingNodeUnitData">>
    ELSE ScanTree(buf, pos + 1 + SizeOfU, pending - 1)

\* C9: tree deserialization reports malformed bytes as errors. On every byte
\* string it returns MissingNodeTypeSpecifier where a tag is absent,
\* InvalidNodeTypeSpecifier(t) at a tag t > 1, MissingNodeUnitData at a Leaf tag
\* with too few bytes after it, and never panics; decompress hands the error on
\* as InvalidDecodingTree, so decompress of the byte 0x00 returns
\* InvalidDecodingTree(MissingNodeUnitData).
C9_DeserializeErrors ==
    fed_kind = "bytes" =>
        LET scan == ScanTree(fed, 0, 1)
        IN  /\ parsed.kind \in {"Ok", "Err"}
            /\ (scan[1] = "read") = (parsed.kind = "Ok")
            /\ (parsed.kind = "Ok" => parsed.val[2] = scan[2])
            /\ (parsed.kind = "Err" =>
                  /\ parsed.err = scan
                  /\ result = Err(<<"InvalidDecodingTree", scan>>))
            /\ (fed = <<0>> =>
                  result = Err(<<"InvalidDecodingTree", <<"MissingNodeUnitData">>>>))

\* the input ends inside the recursion of a Parent
C9_Witness ==
    /\ fed_kind = "bytes"
    /\ Len(fed) >= 3
    /\ fed[1] = 1
    /\ parsed = Err(<<"MissingNodeTypeSpecifier">>)

\* C10: tree serialization round-trips and is self-delimiting. Reading back the
\* serialized decoder, whatever bytes follow it, gives an equal tree and a
\* consumed count equal to the serialized length, which is one tag per node and
\* the value bytes per leaf; and a tree read from any bytes serializes to
\* exactly the bytes consumed.
C10_SerializeRoundTrip ==
    /\ fed_kind = "tree" =>
          LET ser == Node_serialize(encoder.root)
          IN  /\ parsed.kind = "Ok"
              /\ Node_eq(parsed.val[1].root, encoder.root)
              /\ parsed.val[2] = Len(ser)
              /\ Len(ser) = (1 + SizeOfU) * Len(Leaves(encoder.root))
                              + (Len(Leaves(encoder.root)) - 1)
              /\ ser[1] = (IF encoder.root.type = "Parent" THEN 1 ELSE 0)
              /\ SubSeq(fed, parsed.val[2] + 1, Len(fed)) \in Rests
    /\ (fed_kind = "bytes" /\ parsed.kind = "Ok") =>
          DecodingTree_serialize(parsed.val[1]) = SubSeq(fed, 1, parsed.val[2])

\* a tree of three leaves was read back from bytes that go on after it
C10_Witness ==
    /\ fed_kind = "tree"
    /\ leaf_node_count(encoder) = 3
    /\ parsed.kind = "Ok"
    /\ parsed.val[2] < Len(fed)

----------------------------------------------------------------------------
(* Properties of the bit buffer, checked under SpecBits *)

\* C6: extend_from_bits is bit-by-bit appending. After any appends and extends
\* the buffer is in the state that append_bit of the same bits, one by one,
\* gives, and iteration yields those bits.
C6_ExtendEqualsAppend ==
    /\ bv = from_bool_slice(log)
    /\ to_bool_slice(as_bit_view(bv)) = log

----------------------------------------------------------------------------
(* A buffer built by append_bit alone, and its serialization *)

\* v.serialize() and BitVec::deserialize of it, as tests::check_serde does;
\* `encoded` keeps the buffer that was serialized
SerializeBits ==
    /\ encoded' = bv
    /\ fed' = BitVec_serialize(bv)
    /\ fed_kind' = "bits"
    /\ result' = BitVec_deserialize(fed')
    /\ UNCHANGED <<overflow_checks, bits_vars, pc, data, frequencies, next_i, encoder,
                   blob, prev_blob, parsed>>

NextAppend ==
    \/ \E bit \in {0, 1} : AppendBit(bit)
    \/ SerializeBits

SpecAppend == Init /\ [][NextAppend]_vars

\* C11: bit iteration yields exactly the appended bits. For a buffer built by
\* append_bit, iterating it yields the appended bits in order and then ends,
\* their number is len_bits(), bit i is read from byte i / 8 at mask 0x80 >> (i % 8),
\* there are ceil(n / 8) bytes, and the padding bits, which are never yielded,
\* are zero.
C11_IterationYieldsAppended ==
    LET n == Len(log)
        view == as_bit_view(bv)
        it == iter_bits(view)
    IN  /\ ~it.panicked
        /\ it.bits = log
        /\ len_bits(bv) = n
        /\ least_len_bytes(bv) = (n + 7) \div 8
        /\ \A i \in 0..(n - 1) :
              (log[i + 1] = 1) = TestBit(bv.raw_data[(i \div 8) + 1], 7 - (i % 8))
        /\ \A i \in n..(8 * least_len_bytes(bv) - 1) :
              ~TestBit(bv.raw_data[(i \div 8) + 1], 7 - (i % 8))
        /\ BitIterator_next(view, n) = <<"none">>

\* bits were appended into a second byte that still has padding
C11_Witness ==
    /\ last_op = "append_bit"
    /\ Len(log) = 10
    /\ log[9] = 1
    /\ bv.last_byte_padding = 6

\* C13: bit-buffer serialization round-trips. serialize gives the padding byte
\* followed by the data bytes unchanged, and deserialize of that gives a buffer
\* with the same data bytes and the same padding.
C13_BitVecSerdeRoundTrip ==
    fed_kind = "bits" =>
        /\ Len(fed) = 1 + Len(encoded.raw_data)
        /\ fed[1] = encoded.last_byte_padding
        /\ SubSeq(fed, 2, Len(fed)) = encoded.raw_data
        /\ result = encoded

\* a buffer of more than one byte with padding was serialized and read back
C13_Witness ==
    /\ fed_kind = "bits"
    /\ Len(fed) = 3
    /\ fed[1] = 6
    /\ result # PANIC

----------------------------------------------------------------------------
\* C12: an empty bit-buffer section is an error, not a crash. When the tree
\* section parses and no byte follows it, BitVec::deserialize is given the
\* empty slice and decompress returns the InvalidBitCode error.
C12_EmptyBitSectionIsError ==
    (fed_kind = "bytes" /\ parsed.kind = "Ok" /\ parsed.val[2] = Len(fed)) =>
        result = Err(<<"InvalidBitCode">>)

----------------------------------------------------------------------------
\* new is old after the insertion of (freq, value) as the rule describes it:
\* a Leaf becomes a Parent over itself and the new Leaf; a Parent gains freq,
\* keeps one child as it was and receives the insertion in the other, the left
\* one exactly when the right one is strictly heavier
RECURSIVE InsertedBelow(_, _, _, _)
InsertedBelow(old, new, freq, value) ==
    IF old.type = "Leaf"
    THEN /\ new.type = "Parent"
         /\ new.count = old.count + freq
         /\ new.left = old
         /\ new.right = [type |-> "Leaf", count |-> freq, value |-> value]
    ELSE /\ new.type = "Parent"
         /\ new.count = old.count + freq
         /\ IF old.right.count > old.left.count
            THEN new.right = old.right /\ InsertedBelow(old.left, new.left, freq, value)
            ELSE new.left = old.left /\ InsertedBelow(old.right, new.right, freq, value)

\* C14: the insertion rule. Every add_value step of the tree construction either
\* creates the root Leaf (empty tree) or changes the tree as the rule says.
C14_InsertionRule ==
    [][(pc = "insert" /\ next_i' = next_i + 1) =>
          LET value == frequencies[next_i + 1][1]
              freq == frequencies[next_i + 1][2]
          IN  IF encoder.root = None
              THEN encoder'.root = [type |-> "Leaf", count |-> freq, value |-> value]
              ELSE InsertedBelow(encoder.root, encoder'.root, freq, value)]_vars

\* the third symbol went down into the left child, the right one being heavier
C14_Witness ==
    /\ pc = "insert"
    /\ next_i = 3
    /\ encoder.root.type = "Parent"
    /\ encoder.root.left.type = "Parent"
    /\ encoder.root.right.type = "Leaf"
    /\ encoder.root.right.count > encoder.root.left.left.count

----------------------------------------------------------------------------
\* the root-to-leaf paths of a tree, left to right, each with its leaf's value
RECURSIVE LeafPaths(_, _)
LeafPaths(node, prefix) ==
    IF node.type = "Leaf" THEN << <<prefix, node.value>> >>
    ELSE LeafPaths(node.left, Append(prefix, 0)) \o LeafPaths(node.right, Append(prefix, 1))

IsPrefix(p, q) == Len(p) <= Len(q) /\ SubSeq(q, 1, Len(p)) = p

\* bits read against the table of paths: the values of the complete codes at
\* the front of bits, and the bits left when no code is a prefix of the rest
RECURSIVE StripCodes(_, _, _)
StripCodes(table, bits, decoded) ==
    LET hits == {i \in 1..Len(table) : IsPrefix(table[i][1], bits)}
    IN  IF bits = <<>> \/ hits = {} THEN [decoded |-> decoded, rest |-> bits]
        ELSE LET i == CHOOSE i \in hits : TRUE
             IN  StripCodes(table, SubSeq(bits, Len(table[i][1]) + 1, Len(bits)),
                            Append(decoded, table[i][2]))

\* C15: decode end condition. For a tree whose root is a Parent and any bit
\* view, decode returns Ok with the values of the complete codes when the bits
\* end on a code boundary, and InvalidEncoding exactly when bits are left that
\* are the start of a code and not a whole one; it never panics.
C15_DecodeEndCondition ==
    (fed_kind = "view" /\ encoder.root.type = "Parent") =>
        LET table == LeafPaths(encoder.root, <<>>)
            bits == to_bool_slice(from_padded_bytes(Tail(fed), Head(fed)))
            s == StripCodes(table, bits, <<>>)
        IN  IF s.rest = <<>>
            THEN result = Ok(s.decoded)
            ELSE /\ result = Err(<<"InvalidEncoding">>)
                 /\ \E i \in 1..Len(table) :
                       IsPrefix(s.rest, table[i][1]) /\ s.rest # table[i][1]

\* a view of at least five bits ended inside a two-bit code
C15_Witness ==
    /\ fed_kind = "view"
    /\ encoder.root.type = "Parent"
    /\ Len(fed) = 2 /\ Head(fed) = 3
    /\ result = Err(<<"InvalidEncoding">>)

----------------------------------------------------------------------------
(* Code paths: step_left / step_right from Encoding::new_zeroed() *)

\* the width of Encoding::bits
CodeBits == 64

\* the steps of a path are chosen freely up to MaxFreeSteps and repeat with
\* that period afterwards, up to MaxSteps steps
MaxFreeSteps == 4
MaxSteps == 66

StepAllowed(bit) ==
    /\ path # PANIC
    /\ Len(log) < MaxSteps
    /\ IF Len(log) < MaxFreeSteps THEN TRUE ELSE bit = log[Len(log) - MaxFreeSteps + 1]

StepLeft ==
    /\ StepAllowed(0)
    /\ path' = step_left(path)
    /\ log' = Append(log, 0)
    /\ last_op' = "step_left"
    /\ UNCHANGED <<overflow_checks, bv, codec_vars>>

StepRight ==
    /\ StepAllowed(1)
    /\ path' = step_right(path)
    /\ log' = Append(log, 1)
    /\ last_op' = "step_right"
    /\ UNCHANGED <<overflow_checks, bv, codec_vars>>

NextPath == StepLeft \/ StepRight

SpecPath == Init /\ [][NextPath]_vars

\* C16: code path bit view. After n steps, n in 0..64, from new_zeroed() the
\* path exists, as_bits() yields exactly n bits, the i-th being 1 exactly when
\* the i-th step was step_right, in ceil(n / 8) bytes with padding
\* (8 - n mod 8) mod 8 and zero padding bits.
C16_CodePathBitView ==
    Len(log) <= CodeBits =>
        /\ path # PANIC
        /\ path.meaningful = Len(log)
        /\ LET n == Len(log)
               view == as_bits(path)
           IN  /\ view # PANIC
               /\ iter_bits(view) = [bits |-> log, panicked |-> FALSE]
               /\ Len(view.raw_data) = (n + 7) \div 8
               /\ view.last_byte_padding = (8 - (n % 8)) % 8
               /\ \A i \in n..(8 * Len(view.raw_data) - 1) :
                     ~TestBit(view.raw_data[(i \div 8) + 1], 7 - (i % 8))

\* a path of 64 steps ending with a right step
C16_Witness ==
    /\ Len(log) = CodeBits
    /\ last_op = "step_right"
    /\ path # PANIC
    /\ path.meaningful = CodeBits

\* C17: path length bound. Every Encoding reachable by step_left / step_right
\* has meaningful <= 64, a step from a path of 64 meaningful bits failing.
C17_MeaningfulAtMost64 ==
    /\ path # PANIC => path.meaningful <= CodeBits
    /\ Len(log) > CodeBits => path = PANIC

----------------------------------------------------------------------------
(* A buffer obtained from BitVec::deserialize and used afterwards *)

\* the non-empty byte slices given to BitVec::deserialize: a padding byte and
\* at most one data byte
WireInputs == {<<p>> \o d : p \in {0, 3, 9}, d \in {<<>>, <<5>>, <<160>>}}

\* the views given to extend_from_bits in this specification
WireViews ==
    {from_padded_bytes(<<>>, 0), from_padded_bytes(<<5>>, 0),
     from_padded_bytes(<<160>>, 3), from_padded_bytes(<<255>>, 9)}

\* BitVec::deserialize(input) replaces the fresh buffer; log takes the bits it iterates to
DeserializeBits(input) ==
    /\ last_op = "new"
    /\ bv' = BitVec_deserialize(input)
    /\ log' = to_bool_slice(as_bit_view(bv'))
    /\ last_op' = "deserialize"
    /\ UNCHANGED <<overflow_checks, path, codec_vars>>

NextWire ==
    \/ \E input \in WireInputs : DeserializeBits(input)
    \/ (bv # PANIC /\ \E bit \in {0, 1} : AppendBit(bit))
    \/ (bv # PANIC /\ \E view \in WireViews : ExtendFromBits(view))

SpecWire == Init /\ [][NextWire]_vars

\* C18: bit-buffer well-formedness. In every state of a buffer obtained from
\* new, deserialize of a non-empty slice, append_bit and extend_from_bits, the
\* padding is in 0..7 and is 0 when there are no data bytes, and no operation
\* has panicked.
C18_WellFormed ==
    /\ bv # PANIC
    /\ bv.last_byte_padding \in 0..7
    /\ (bv.raw_data = <<>> => bv.last_byte_padding = 0)

----------------------------------------------------------------------------
\* the paths of the symbols in order, one after the other
RECURSIVE ConcatPaths(_, _)
ConcatPaths(table, symbols) ==
    IF symbols = <<>> THEN <<>>
    ELSE LET i == CHOOSE i \in 1..Len(table) : table[i][2] = Head(symbols)
         IN  table[i][1] \o ConcatPaths(table, Tail(symbols))

\* C19: prefix-free codes. In the tree EncodingTree::encode builds from an
\* input with at least two distinct symbols, each symbol is held by exactly one
\* Leaf, encode_value gives the root-to-leaf path of that Leaf, of at least one
\* bit, the codes of two symbols differ and neither is a prefix of the other,
\* and the encoded buffer is the codes of the input one after the other.
C19_PrefixFreeCodes ==
    (pc = "encoded" /\ Cardinality(Distinct(data)) >= 2) =>
        LET table == LeafPaths(encoder.root, <<>>)
            code(v) == to_bool_slice(as_bits(encode_value(encoder, v)))
        IN  /\ \A v \in Distinct(data) :
                  /\ Cardinality({i \in 1..Len(table) : table[i][2] = v}) = 1
                  /\ encode_value(encoder, v) # PANIC
                  /\ \E i \in 1..Len(table) : table[i][2] = v /\ table[i][1] = code(v)
                  /\ Len(code(v)) >= 1
            /\ \A v, w \in Distinct(data) : v # w => ~IsPrefix(code(v), code(w))
            /\ encoded # PANIC
            /\ iter_bits(as_bit_view(encoded)) =
                   [bits |-> ConcatPaths(table, data), panicked |-> FALSE]

\* three symbols were encoded, one of them with a one-bit code
C19_Witness ==
    /\ pc = "encoded"
    /\ Cardinality(Distinct(data)) = 3
    /\ Len(data) = MaxLen
    /\ encoded # PANIC
    /\ \E i \in 1..3 : Len(LeafPaths(encoder.root, <<>>)[i][1]) = 1

====
